---- MODULE Spec2Model ----
(***************************************************************************)
(* Model of src/main.py: ShopifyInsightsFetcher.fetch_insights and the     *)
(* extractors it calls.  One run of fetch_insights is a walk of pc from    *)
(* "get_home" to "done"; the remote world (the three responses and the     *)
(* parsed homepage) is fixed by the initial state.                         *)
(*                                                                         *)
(* Text is a sequence of one-character strings.  Anchor text and hrefs are *)
(* sequences of word tokens; "keyword in text" is containment of the       *)
(* keyword's token sequence as a contiguous run of the lowercased text.    *)
(***************************************************************************)
EXTENDS Integers, Sequences, FiniteSets, TLC

VARIABLES pc, homeResp, soup, feedResp, faqResp, requests, insights, outcome, i,
          social_handles, important_links

vars == <<pc, homeResp, soup, feedResp, faqResp, requests, insights, outcome, i,
          social_handles, important_links>>

(***************************************************************************)
(* Bounds of the explored inputs.                                          *)
(***************************************************************************)
MaxFeed == 2
MaxMatches == 4
MaxElems == 6
MaxAnchors == 3
MaxContainers == 6
MaxSections == 2
Over == 50

(***************************************************************************)
(* Values.  Every optional or dynamically typed value is a tagged record.  *)
(***************************************************************************)
None == [t |-> "None"]
Str(s) == [t |-> "str", s |-> s]
Lst(l) == [t |-> "list", l |-> l]
Num(n) == [t |-> "int", n |-> n]
Dict(d) == [t |-> "dict", d |-> d]

\* Python truthiness of a value.
Truthy(x) ==
  CASE x.t = "None" -> FALSE
    [] x.t = "int" -> x.n # 0
    [] x.t = "dict" -> DOMAIN x.d # {}
    [] x.t = "str" -> x.s # <<>>
    [] x.t = "list" -> x.l # <<>>

\* dict.get(k) with the default None.
Get(d, k) == IF k \in DOMAIN d THEN d[k] ELSE None

\* The result of a call: a value, or a raised exception.
Ok(v) == [ok |-> TRUE, val |-> v]
Raise(e) == [ok |-> FALSE, exc |-> e]

Min(a, b) == IF a < b THEN a ELSE b

\* s[:n]
Take(s, n) == SubSeq(s, 1, Min(n, Len(s)))

\* str.split(',')
RECURSIVE SplitFrom(_, _, _)
SplitFrom(s, k, cur) ==
  IF k > Len(s) THEN <<cur>>
  ELSE IF s[k] = "," THEN <<cur>> \o SplitFrom(s, k + 1, <<>>)
  ELSE SplitFrom(s, k + 1, Append(cur, s[k]))

Split(s) == SplitFrom(s, 1, <<>>)

\* str.strip() / get_text(strip=True) on a single text node
RECURSIVE LStrip(_)
LStrip(s) == IF s # <<>> /\ Head(s) = " " THEN LStrip(Tail(s)) ELSE s

RECURSIVE RStrip(_)
RStrip(s) == IF s # <<>> /\ s[Len(s)] = " " THEN RStrip(SubSeq(s, 1, Len(s) - 1)) ELSE s

Strip(s) == RStrip(LStrip(s))

Ellipsis == <<".", ".", ".">>

\* str.lower() on a word token
Lower(w) ==
  CASE w = "FAQ" -> "faq"
    [] w = "FAQs" -> "faqs"
    [] w = "Contact" -> "contact"
    [] w = "Us" -> "us"
    [] w = "Track" -> "track"
    [] w = "Order" -> "order"
    [] w = "Blog" -> "blog"
    [] w = "News" -> "news"
    [] w = "Privacy" -> "privacy"
    [] w = "Policy" -> "policy"
    [] w = "Refund" -> "refund"
    [] w = "Home" -> "home"
    [] OTHER -> w

LowerSeq(ws) == [k \in 1..Len(ws) |-> Lower(ws[k])]

\* one word is a substring of another word
SubWord(k, w) ==
  k = w \/ <<k, w>> \in {<<"faq", "faqs">>, <<"return", "returns">>,
                         <<"order", "orders">>, <<"track", "tracking">>}

\* keyword in text
Contains(kw, ws) ==
  \E k \in 1..(Len(ws) - Len(kw) + 1) :
    \A j \in 1..Len(kw) : SubWord(kw[j], ws[k + j - 1])

\* An href is host + path segments; a relative href has host "".
HrefText(href) == <<href.host>> \o href.segs

\* urljoin(base_url, href) for an absolute href or an absolute-path reference
Urljoin(base, href) ==
  IF href.host # "" THEN href ELSE [host |-> base.host, segs |-> href.segs]

BaseUrl == [host |-> "shop.example", segs |-> <<>>]

(***************************************************************************)
(* Exceptions and fetch_insights' two handlers.                            *)
(***************************************************************************)
RequestExceptions == {"ConnectionError", "Timeout", "HTTPError"}

Exc(type) == [type |-> type, detail |-> type]

HTTPException(code, detail) ==
  [type |-> "HTTPException", status_code |-> code, detail |-> detail, cause |-> "-"]

\* except requests.exceptions.RequestException / except Exception
Handle(e) ==
  IF e.type \in RequestExceptions
  THEN HTTPException(500, "Error fetching website data")
  ELSE [type |-> "HTTPException", status_code |-> 500,
        detail |-> "Internal server error: ", cause |-> e.detail]

\* faulty variant: only server errors raise
RaiseForServerError(status) == status >= 500 /\ status < 600

\* Response.raise_for_status()
RaiseForStatus(status) == status >= 400 /\ status < 600

\* session.get(url) on the homepage up to and including raise_for_status
HomeFetch(resp) ==
  IF resp.kind = "neterr" THEN Raise(Exc(resp.exc))
  ELSE IF resp.status = 404 THEN Raise(HTTPException(401, "Website not found"))
  ELSE IF RaiseForStatus(resp.status) THEN Raise(Exc("HTTPError"))
  ELSE Ok(resp.status)

\* BrandInsights(website_url=url)
BrandInsights(url) ==
  [website_url |-> url, product_catalog |-> <<>>, hero_products |-> <<>>,
   privacy_policy |-> None, return_policy |-> None, faqs |-> <<>>,
   social_handles |-> <<>>, contact_details |-> <<>>, brand_context |-> None,
   important_links |-> <<>>]

(***************************************************************************)
(* _get_product_catalog                                                    *)
(***************************************************************************)
\* line 94: the tags of one feed entry
ProductTags(product) ==
  LET tags == Get(product, "tags") IN
  IF Truthy(tags)
  THEN IF tags.t = "str" THEN Ok(Split(tags.s)) ELSE Raise(Exc("AttributeError"))
  ELSE Ok(<<>>)

\* lines 88-95: one iteration of the loop
ProductOf(entry) ==
  IF entry.t # "dict" THEN Raise(Exc("AttributeError"))
  ELSE LET tg == ProductTags(entry.d) IN
       IF ~tg.ok THEN tg
       ELSE Ok([id |-> Get(entry.d, "id"), title |-> Get(entry.d, "title"),
                handle |-> Get(entry.d, "handle"),
                product_type |-> Get(entry.d, "product_type"),
                vendor |-> Get(entry.d, "vendor"), tags |-> tg.val])

RECURSIVE MapProducts(_)
MapProducts(entries) ==
  IF entries = <<>> THEN Ok(<<>>)
  ELSE LET p == ProductOf(Head(entries)) IN
       IF ~p.ok THEN p
       ELSE LET rest == MapProducts(Tail(entries)) IN
            IF ~rest.ok THEN rest ELSE Ok(<<p.val>> \o rest.val)

\* lines 81-96: the body of the try block
CatalogBody(resp) ==
  IF resp.kind = "neterr" THEN Raise(Exc(resp.exc))
  ELSE IF resp.status # 200 THEN Ok(<<>>)
  ELSE IF resp.body.t = "notjson" THEN Raise(Exc("JSONDecodeError"))
  ELSE IF resp.body.t # "dict" THEN Raise(Exc("AttributeError"))
  ELSE LET ps == IF "products" \in DOMAIN resp.body.d
                 THEN resp.body.d.products ELSE Lst(<<>>) IN
       IF ps.t # "list" THEN Raise(Exc("TypeError")) ELSE MapProducts(ps.l)

\* faulty variant: the except clause does not swallow the failure
GetProductCatalogNoCatch(resp) == CatalogBody(resp)

\* lines 78-100: bare except, then return []
GetProductCatalog(resp) ==
  LET r == CatalogBody(resp) IN IF r.ok THEN r ELSE Ok(<<>>)

(***************************************************************************)
(* _get_hero_products                                                      *)
(***************************************************************************)
HeroSelectors ==
  <<".product-item", ".product-card", ".featured-product",
    "[data-product-id]", ".product", ".grid-product__content">>

HeroCap == 5

\* soup.select(selector): the matching elements in document order
Select(elems, selector) == SelectSeq(elems, LAMBDA e : selector \in e.classes)

\* lines 114-120: the titled elements among products[:5]
RECURSIVE HeroEntries(_, _)
HeroEntries(products, selector) ==
  IF products = <<>> THEN <<>>
  ELSE LET title_elem == Head(products).title IN
       (IF title_elem # None
        THEN <<[title |-> Strip(title_elem.s), selector_used |-> selector]>>
        ELSE <<>>) \o HeroEntries(Tail(products), selector)

\* lines 110-121: the loop over product_selectors from index k on
RECURSIVE HeroFrom(_, _)
HeroFrom(elems, k) ==
  IF k > Len(HeroSelectors) THEN <<>>
  ELSE LET products == Select(elems, HeroSelectors[k]) IN
       IF products # <<>>
       THEN HeroEntries(Take(products, HeroCap), HeroSelectors[k])
       ELSE HeroFrom(elems, k + 1)

\* faulty variant: a selector whose first matches lack a title gives way to the next
RECURSIVE HeroFromUntilTitled(_, _)
HeroFromUntilTitled(elems, k) ==
  IF k > Len(HeroSelectors) THEN <<>>
  ELSE LET found == HeroEntries(Take(Select(elems, HeroSelectors[k]), HeroCap),
                                HeroSelectors[k]) IN
       IF found # <<>> THEN found ELSE HeroFromUntilTitled(elems, k + 1)

GetHeroProductsUntilTitled(doc) == HeroFromUntilTitled(doc.elems, 1)

\* lines 102-122
GetHeroProducts(doc) == HeroFrom(doc.elems, 1)

(***************************************************************************)
(* _get_policy_link                                                        *)
(***************************************************************************)
PolicyKeywords(policy_type) ==
  CASE policy_type = "privacy" -> <<(<<"privacy">>), <<"privacy", "policy">> >>
    [] policy_type = "return" ->
         <<(<<"return">>), <<"refund">>, <<"return", "policy">>, <<"refund", "policy">> >>
    [] OTHER -> <<>>

AnyKeyword(kws, ws) == \E k \in 1..Len(kws) : Contains(kws[k], ws)

RECURSIVE PolicyFrom(_, _, _)
PolicyFrom(anchors, base_url, kws) ==
  IF anchors = <<>> THEN None
  ELSE LET link == Head(anchors) IN
       IF AnyKeyword(kws, LowerSeq(link.text)) \/ AnyKeyword(kws, LowerSeq(HrefText(link.href)))
       THEN [t |-> "url", u |-> Urljoin(base_url, link.href)]
       ELSE PolicyFrom(Tail(anchors), base_url, kws)

GetPolicyLink(doc, base_url, policy_type) ==
  PolicyFrom(doc.anchors, base_url, PolicyKeywords(policy_type))

(***************************************************************************)
(* _get_faqs                                                               *)
(***************************************************************************)
\* faulty variant: every anchor counts as a link to the FAQ page
IsFaqAnchorAny(link) == TRUE

\* line 147: 'faq' in text.lower() or 'faq' in href.lower()
IsFaqAnchor(link) ==
  Contains(<<"faq">>, LowerSeq(link.text)) \/ Contains(<<"faq">>, LowerSeq(HrefText(link.href)))

\* lines 145-149
RECURSIVE FaqLink(_, _)
FaqLink(anchors, base_url) ==
  IF anchors = <<>> THEN None
  ELSE IF IsFaqAnchor(Head(anchors))
       THEN [t |-> "url", u |-> Urljoin(base_url, Head(anchors).href)]
       ELSE FaqLink(Tail(anchors), base_url)

FaqCap == 5
AnswerLimit == 200

\* lines 159-166
RECURSIVE FaqEntries(_)
FaqEntries(qa_pairs) ==
  IF qa_pairs = <<>> THEN <<>>
  ELSE LET qa == Head(qa_pairs) IN
       (IF qa.question # None /\ qa.answer # None
        THEN <<[question |-> Strip(qa.question.s),
                answer |-> Take(Strip(qa.answer.s), AnswerLimit) \o Ellipsis]>>
        ELSE <<>>) \o FaqEntries(Tail(qa_pairs))

\* lines 154-166: the body of the try block; the status of the response is not read
FaqBody(resp) ==
  IF resp.kind = "neterr" THEN Raise(Exc(resp.exc))
  ELSE IF resp.body.t = "unparseable" THEN Raise(Exc("ParserError"))
  ELSE Ok(FaqEntries(Take(resp.body.l, FaqCap)))

\* lines 141-171
GetFaqs(doc, base_url, resp) ==
  IF FaqLink(doc.anchors, base_url) = None THEN Ok(<<>>)
  ELSE LET r == FaqBody(resp) IN IF r.ok THEN r ELSE Ok(<<>>)

(***************************************************************************)
(* _get_social_handles                                                     *)
(***************************************************************************)
Platforms == <<"instagram", "facebook", "twitter", "tiktok">>

PlatformHost(platform) ==
  CASE platform = "instagram" -> "instagram.com"
    [] platform = "facebook" -> "facebook.com"
    [] platform = "twitter" -> "twitter.com"
    [] platform = "tiktok" -> "tiktok.com"

\* the part of a path segment after a leading '@', "" when there is none
AfterAt(w) ==
  CASE w = "@brand" -> "brand"
    [] w = "@other" -> "other"
    [] OTHER -> ""

\* re.search(pattern, href): the captured group, or None
SocialMatch(platform, href) ==
  IF href.host # PlatformHost(platform) \/ href.segs = <<>> \/ href.segs[1] = ""
  THEN None
  ELSE IF platform = "tiktok"
       THEN (IF AfterAt(href.segs[1]) = "" THEN None ELSE Str(AfterAt(href.segs[1])))
       ELSE Str(href.segs[1])

PlatformSet == {Platforms[k] : k \in 1..Len(Platforms)}

\* faulty variant: a later match replaces the recorded handle
SocialStepOverwrite(handles, link) ==
  LET hit == {p \in PlatformSet : SocialMatch(p, link.href) # None} IN
  [p \in DOMAIN handles \cup hit |->
     IF p \in hit THEN SocialMatch(p, link.href).s ELSE handles[p]]

\* lines 185-189: one iteration of the loop over the anchors
SocialStep(handles, link) ==
  LET hit == {p \in PlatformSet :
                SocialMatch(p, link.href) # None /\ p \notin DOMAIN handles} IN
  [p \in DOMAIN handles \cup hit |->
     IF p \in hit THEN SocialMatch(p, link.href).s ELSE handles[p]]

(***************************************************************************)
(* _get_contact_details                                                    *)
(***************************************************************************)
ContactCap == 3

\* set(matches[:3])
FirstUnique(matches) == {matches[k] : k \in 1..Min(ContactCap, Len(matches))}

\* list(set): the elements once each, in an order the language does not fix
Orderings(S) ==
  {s \in [1..Cardinality(S) -> S] : \A a, b \in 1..Cardinality(S) : a # b => s[a] # s[b]}

\* lines 193-209: the dicts the call can return
GetContactDetails(doc) ==
  LET emails == doc.emails
      phones == [k \in 1..Min(ContactCap, Len(doc.phones)) |-> Strip(doc.phones[k])]
      keys == (IF emails # <<>> THEN {"emails"} ELSE {}) \cup
              (IF doc.phones # <<>> THEN {"phones"} ELSE {}) IN
  {[k \in keys |-> IF k = "emails" THEN e ELSE p] :
     e \in Orderings(FirstUnique(emails)),
     p \in Orderings({phones[k] : k \in 1..Len(phones)})}

(***************************************************************************)
(* _get_brand_context                                                      *)
(***************************************************************************)
AboutSelectors == <<".about", "#about", ".brand-story", ".our-story">>

BrandLimit == 300

\* faulty variant: truncates from 300 characters on
TruncateAtLimit(text) ==
  IF Len(text) >= BrandLimit THEN Take(text, BrandLimit) \o Ellipsis ELSE text

\* line 220
Truncate(text) ==
  IF Len(text) > BrandLimit THEN Take(text, BrandLimit) \o Ellipsis ELSE text

\* lines 215-220: the loop over about_selectors from index k on
RECURSIVE AboutFrom(_, _)
AboutFrom(elems, k) ==
  IF k > Len(AboutSelectors) THEN None
  ELSE LET found == Select(elems, AboutSelectors[k]) IN
       IF found # <<>> THEN Str(Truncate(Strip(Head(found).text)))
       ELSE AboutFrom(elems, k + 1)

\* lines 211-227
GetBrandContext(doc) ==
  LET about == AboutFrom(doc.elems, 1) IN
  IF about # None THEN about
  ELSE IF doc.meta # None
       THEN Str(Take(IF "content" \in DOMAIN doc.meta.d THEN doc.meta.d.content ELSE <<>>,
                     BrandLimit))
       ELSE None

(***************************************************************************)
(* _get_important_links                                                    *)
(***************************************************************************)
LinkKinds == {"contact", "track_order", "blog"}

LinkKeywords(key) ==
  CASE key = "contact" -> <<(<<"contact">>), <<"contact", "us">> >>
    [] key = "track_order" ->
         <<(<<"track">>), <<"order">>, <<"track", "order">>, <<"order", "tracking">> >>
    [] key = "blog" -> <<(<<"blog">>), <<"news">>, <<"articles">> >>

\* lines 240-249: one iteration of the loop over the anchors
LinksStep(links, link, base_url) ==
  LET link_text == LowerSeq(link.text)
      hit == {key \in LinkKinds :
                key \notin DOMAIN links /\ AnyKeyword(LinkKeywords(key), link_text)} IN
  [key \in DOMAIN links \cup hit |->
     IF key \in hit THEN Urljoin(base_url, link.href) ELSE links[key]]
(***************************************************************************)
(* fetch_insights, one step per statement.                                 *)
(***************************************************************************)
Pending == [kind |-> "pending"]
Returned == [kind |-> "returned"]
Raised(e) == [kind |-> "raised", exc |-> e]

world == <<homeResp, soup, feedResp, faqResp>>
locals == <<i, social_handles, important_links>>

\* lines 38-44
GetHome ==
  /\ pc = "get_home"
  /\ requests' = Append(requests, "homepage")
  /\ LET r == HomeFetch(homeResp) IN
     IF r.ok
     THEN pc' = "catalog" /\ insights' = BrandInsights(BaseUrl) /\ UNCHANGED outcome
     ELSE pc' = "done" /\ outcome' = Raised(Handle(r.exc)) /\ UNCHANGED insights
  /\ UNCHANGED <<world, locals>>

\* line 47
StepCatalog ==
  /\ pc = "catalog"
  /\ requests' = Append(requests, "feed")
  /\ LET r == GetProductCatalog(feedResp) IN
     IF r.ok
     THEN pc' = "hero" /\ insights' = [insights EXCEPT !.product_catalog = r.val]
          /\ UNCHANGED outcome
     ELSE pc' = "done" /\ outcome' = Raised(Handle(r.exc)) /\ UNCHANGED insights
  /\ UNCHANGED <<world, locals>>

\* line 50
StepHero ==
  /\ pc = "hero"
  /\ insights' = [insights EXCEPT !.hero_products = GetHeroProducts(soup)]
  /\ pc' = "privacy"
  /\ UNCHANGED <<world, locals, requests, outcome>>

\* line 53
StepPrivacy ==
  /\ pc = "privacy"
  /\ insights' = [insights EXCEPT !.privacy_policy = GetPolicyLink(soup, BaseUrl, "privacy")]
  /\ pc' = "return"
  /\ UNCHANGED <<world, locals, requests, outcome>>

\* line 54
StepReturn ==
  /\ pc = "return"
  /\ insights' = [insights EXCEPT !.return_policy = GetPolicyLink(soup, BaseUrl, "return")]
  /\ pc' = "faqs"
  /\ UNCHANGED <<world, locals, requests, outcome>>

\* line 57; the request of line 154 is sent when a link was found
StepFaqs ==
  /\ pc = "faqs"
  /\ requests' = IF FaqLink(soup.anchors, BaseUrl) # None
                 THEN Append(requests, "faq") ELSE requests
  /\ LET r == GetFaqs(soup, BaseUrl, faqResp) IN
     IF r.ok
     THEN pc' = "social" /\ insights' = [insights EXCEPT !.faqs = r.val]
          /\ UNCHANGED outcome
     ELSE pc' = "done" /\ outcome' = Raised(Handle(r.exc)) /\ UNCHANGED insights
  /\ UNCHANGED <<world, locals>>

\* lines 184-189: one anchor of _get_social_handles
SocialIter ==
  /\ pc = "social"
  /\ i <= Len(soup.anchors)
  /\ social_handles' = SocialStep(social_handles, soup.anchors[i])
  /\ i' = i + 1
  /\ UNCHANGED <<world, pc, requests, insights, outcome, important_links>>

\* lines 191 and 60
SocialReturn ==
  /\ pc = "social"
  /\ i > Len(soup.anchors)
  /\ insights' = [insights EXCEPT !.social_handles = social_handles]
  /\ pc' = "contact"
  /\ i' = 1
  /\ UNCHANGED <<world, requests, outcome, social_handles, important_links>>

\* line 63
StepContact ==
  /\ pc = "contact"
  /\ \E contact_details \in GetContactDetails(soup) :
       insights' = [insights EXCEPT !.contact_details = contact_details]
  /\ pc' = "brand"
  /\ UNCHANGED <<world, locals, requests, outcome>>

\* line 66
StepBrand ==
  /\ pc = "brand"
  /\ insights' = [insights EXCEPT !.brand_context = GetBrandContext(soup)]
  /\ pc' = "links"
  /\ UNCHANGED <<world, locals, requests, outcome>>

\* lines 239-249: one anchor of _get_important_links
LinksIter ==
  /\ pc = "links"
  /\ i <= Len(soup.anchors)
  /\ important_links' = LinksStep(important_links, soup.anchors[i], BaseUrl)
  /\ i' = i + 1
  /\ UNCHANGED <<world, pc, requests, insights, outcome, social_handles>>

\* lines 251, 69 and 71
LinksReturn ==
  /\ pc = "links"
  /\ i > Len(soup.anchors)
  /\ insights' = [insights EXCEPT !.important_links = important_links]
  /\ outcome' = Returned
  /\ pc' = "done"
  /\ UNCHANGED <<world, locals, requests>>

Next ==
  \/ GetHome
  \/ StepCatalog
  \/ StepHero
  \/ StepPrivacy
  \/ StepReturn
  \/ StepFaqs
  \/ SocialIter
  \/ SocialReturn
  \/ StepContact
  \/ StepBrand
  \/ LinksIter
  \/ LinksReturn

\* the state at the call of fetch_insights, for a world drawn from the given sets
InitRun(H, D, F, Q) ==
  /\ pc = "get_home"
  /\ homeResp \in H
  /\ soup \in D
  /\ feedResp \in F
  /\ faqResp \in Q
  /\ requests = <<>>
  /\ insights = None
  /\ outcome = Pending
  /\ i = 1
  /\ social_handles = <<>>
  /\ important_links = <<>>

(***************************************************************************)
(* The worlds explored: responses and parsed homepages.                    *)
(***************************************************************************)
SeqsUpTo(S, n) == UNION {[1..k -> S] : k \in 0..n}

Letters == <<"a", "b", "c">>

\* a text of n letters; the seed varies the content
Text(n, seed) == [k \in 1..n |-> Letters[((k + seed) % 3) + 1]]

Pad(s) == <<" ">> \o s \o <<" ">>

Rel(segs) == [host |-> "", segs |-> segs]

Anchor(text, href) == [text |-> text, href |-> href]

AnchorPool ==
  { Anchor(<<"FAQ">>, Rel(<<"pages", "help">>)),
    Anchor(<<"Help">>, Rel(<<"pages", "FAQs">>)),
    Anchor(<<"Contact", "Us">>, Rel(<<"pages", "contact">>)),
    Anchor(<<"contact">>, [host |-> "instagram.com", segs |-> <<"other">>]),
    Anchor(<<"Track", "Order">>, Rel(<<"track">>)),
    Anchor(<<"News", "and", "Contact">>, Rel(<<"blog">>)),
    Anchor(<<"Home">>, Rel(<<>>)),
    Anchor(<<"Instagram">>, [host |-> "instagram.com", segs |-> <<"brand">>]),
    Anchor(<<"Facebook">>, [host |-> "facebook.com", segs |-> <<"brand">>]),
    Anchor(<<"TikTok">>, [host |-> "tiktok.com", segs |-> <<"@brand">>]),
    Anchor(<<"TikTok">>, [host |-> "tiktok.com", segs |-> <<"brand">>]),
    Anchor(<<"Privacy", "Policy">>, Rel(<<"policies", "privacy">>)),
    Anchor(<<"Shipping">>, Rel(<<"pages", "returns">>)) }

Elem(classes, title, text) == [classes |-> classes, title |-> title, text |-> text]

HeroPool ==
  { Elem({".product-card"}, Str(<<" ", "A">>), <<>>),
    Elem({".product-card"}, None, <<>>),
    Elem({".product"}, Str(<<"B", " ">>), <<>>),
    Elem({".product-card", ".product"}, Str(<<"C">>), <<>>) }

TextLens == {0, BrandLimit - 1, BrandLimit, BrandLimit + 1, BrandLimit + Over}

AboutPool ==
  {Elem({".about"}, None, Pad(Text(n, 0))) : n \in TextLens} \cup
  {Elem({".brand-story"}, None, Pad(Text(n, 1))) : n \in TextLens}

MetaPool ==
  {None, Dict(<<>>)} \cup {Dict([content |-> Text(n, 2)]) : n \in TextLens}

Emails == {"a@x.com", "b@x.com", "c@x.com", "d@x.com"}

PhonePool == { <<>>, << <<"5", "5", "5">> >>, << <<" ", "5", "5", "5">>, <<"5", "5", "5", " ">> >> }

EmptyDoc == [anchors |-> <<>>, elems |-> <<>>, emails |-> <<>>, phones |-> <<>>, meta |-> None]

\* a homepage with something for every extractor
BaseDoc ==
  [anchors |-> << Anchor(<<"Contact", "Us">>, Rel(<<"pages", "contact">>)),
                  Anchor(<<"FAQ">>, Rel(<<"pages", "help">>)),
                  Anchor(<<"Instagram">>, [host |-> "instagram.com", segs |-> <<"brand">>]) >>,
   elems |-> << Elem({".product-card"}, Str(<<" ", "A">>), <<>>),
                Elem({".about"}, None, Pad(Text(3, 0))) >>,
   emails |-> <<"a@x.com">>,
   phones |-> <<>>,
   meta |-> Dict([content |-> Text(2, 2)])]

\* the same homepage without a link to an FAQ page
NoFaqDoc == [BaseDoc EXCEPT !.anchors = SubSeq(BaseDoc.anchors, 1, 1)]

NetErr(e) == [kind |-> "neterr", exc |-> e]
Resp(status, body) == [kind |-> "resp", status |-> status, body |-> body]

HomeStatuses == {200, 304, 403, 404, 500, 503}

HomeResps ==
  {NetErr("ConnectionError"), NetErr("Timeout")} \cup {Resp(st, None) : st \in HomeStatuses}

HomeOk == {Resp(200, None)}

\* a feed entry: a JSON object, or something else
Entry(id, title) == [id |-> Num(id), title |-> Str(<<title>>)]

EntryPool ==
  { Dict(Entry(1, "A")),
    Dict(Entry(2, "B") @@ [tags |-> Str(<<>>)]),
    Dict(Entry(3, "C") @@ [tags |-> Str(<<"r", ",", "b">>)]),
    Dict(Entry(4, "D") @@ [tags |-> Str(<<"r">>)]),
    Dict(Entry(5, "E") @@ [tags |-> Lst(<<>>)]),
    Dict(Entry(6, "F") @@ [tags |-> Lst(<< <<"r">>, <<"b">> >>)]),
    Dict(Entry(7, "G") @@ [tags |-> None]),
    Str(<<"x">>) }

FeedBodies(entries) ==
  { [t |-> "notjson"], Lst(<<>>), Dict(<<>>), Dict([products |-> None]) } \cup
  { Dict([products |-> Lst(es)]) : es \in entries }

FeedResps(entries) ==
  {NetErr("ConnectionError"), NetErr("Timeout")} \cup
  {Resp(st, b) : st \in {200, 404, 500}, b \in FeedBodies(entries)}

FeedOk == {Resp(200, Dict([products |-> Lst(<<Dict(Entry(1, "A"))>>)]))}

Container(q, a) == [question |-> q, answer |-> a]

ContainerPool ==
  { Container(Str(<<"Q", " ">>), Str(Pad(Text(2, 0)))),
    Container(Str(<<"Q">>), None),
    Container(None, None) }

LongAnswer == Container(Str(<<"Q">>), Str(Text(AnswerLimit + 1, 0)))

FaqBodies(containers) == {[t |-> "unparseable"]} \cup {Lst(cs) : cs \in containers}

FaqResps(containers) ==
  {NetErr("ConnectionError"), NetErr("Timeout")} \cup
  {Resp(st, b) : st \in {200, 404, 500}, b \in FaqBodies(containers)}

FaqOk == {Resp(200, Lst(<<Container(Str(<<"Q", " ">>), Str(Pad(Text(2, 0))))>>))}

(***************************************************************************)
(* Specifications: the same program over different families of worlds.     *)
(***************************************************************************)
\* every homepage outcome against every secondary outcome
Init ==
  InitRun(HomeResps, {EmptyDoc, BaseDoc, NoFaqDoc},
          FeedResps(SeqsUpTo({Dict(Entry(1, "A")), Str(<<"x">>)}, 1)),
          FaqResps({<<>>, <<Container(Str(<<"Q">>), Str(<<"A">>))>>, <<LongAnswer>>}))

Spec == Init /\ [][Next]_vars

\* product feeds
InitCatalog ==
  InitRun(HomeOk, {BaseDoc}, FeedResps(SeqsUpTo(EntryPool, MaxFeed)), FaqOk)

SpecCatalog == InitCatalog /\ [][Next]_vars

\* FAQ pages
InitFaq ==
  InitRun(HomeOk, {BaseDoc, NoFaqDoc}, FeedOk,
          FaqResps(SeqsUpTo(ContainerPool, MaxContainers) \cup {<<LongAnswer>>}))

SpecFaq == InitFaq /\ [][Next]_vars

\* homepages that differ in their product tiles
InitHero ==
  InitRun(HomeOk,
          {[BaseDoc EXCEPT !.elems = es] : es \in SeqsUpTo(HeroPool, MaxElems)},
          FeedOk, FaqOk)

SpecHero == InitHero /\ [][Next]_vars

\* homepages that differ in their anchors
InitScan ==
  InitRun(HomeOk,
          {[BaseDoc EXCEPT !.anchors = as] : as \in SeqsUpTo(AnchorPool, MaxAnchors)},
          FeedOk, FaqOk)

SpecScan == InitScan /\ [][Next]_vars

\* homepages that differ in the email and phone matches of their text
InitContact ==
  InitRun(HomeOk,
          {[BaseDoc EXCEPT !.emails = es, !.phones = ps] :
             es \in SeqsUpTo(Emails, MaxMatches), ps \in PhonePool},
          FeedOk, FaqOk)

SpecContact == InitContact /\ [][Next]_vars

\* homepages that differ in their about sections and meta description
InitBrand ==
  InitRun(HomeOk,
          {[BaseDoc EXCEPT !.elems = es, !.meta = m] :
             es \in SeqsUpTo(AboutPool, MaxSections), m \in MetaPool},
          FeedOk, FaqOk)

SpecBrand == InitBrand /\ [][Next]_vars

(***************************************************************************)
(* Properties of fetch_insights.                                           *)
(***************************************************************************)
Fields ==
  {"website_url", "product_catalog", "hero_products", "privacy_policy", "return_policy",
   "faqs", "social_handles", "contact_details", "brand_context", "important_links"}

\* how a finished run reaches the caller
NotFound == outcome.kind = "raised" /\ outcome.exc.detail = "Website not found"
FetchError == outcome.kind = "raised" /\ outcome.exc.detail = "Error fetching website data"
InternalError == outcome.kind = "raised" /\ outcome.exc.detail = "Internal server error: "
OutputRecord == outcome.kind = "returned"

HomeStatus(S) == homeResp.kind = "resp" /\ homeResp.status \in S

\* C1: a homepage answering 404 ends the run with the NotFound outcome
\* ('Website not found'), not the fetch-error outcome, not the InternalError
\* outcome and not an Output Record.
C1_NotFoundOn404 ==
  (pc = "done" /\ HomeStatus({404})) =>
    (NotFound /\ ~FetchError /\ ~InternalError /\ ~OutputRecord)

\* C7 as stated: a network failure of the homepage fetch, or any status that
\* is not a success (2xx) status and not 404, ends the run with the fetch-error
\* outcome.
C7_FetchErrorOnNonSuccess ==
  (pc = "done" /\ (homeResp.kind = "neterr" \/ HomeStatus((100..599) \ ((200..299) \cup {404})))) =>
    (FetchError /\ ~InternalError /\ ~OutputRecord)

\* C7 amended: a network failure of the homepage fetch, or an error status
\* (400..599) other than 404, ends the run with the fetch-error outcome, never
\* with the InternalError outcome and never with an Output Record.
C7_FetchErrorOnErrorStatus ==
  (pc = "done" /\ (homeResp.kind = "neterr" \/ HomeStatus((400..599) \ {404}))) =>
    (FetchError /\ ~InternalError /\ ~OutputRecord)

C7_Witness ==
  pc = "done" /\ HomeStatus({403}) /\ FetchError /\ requests = <<"homepage">>

\* the secondary fetches that fail
FeedFailed ==
  \/ feedResp.kind = "neterr"
  \/ feedResp.status # 200
  \/ feedResp.body.t # "dict"
  \/ ("products" \in DOMAIN feedResp.body.d /\ feedResp.body.d.products.t # "list")

FaqFailed == faqResp.kind = "neterr" \/ faqResp.body.t = "unparseable"

HasFaqAnchor ==
  \E k \in 1..Len(soup.anchors) :
    \/ \E j \in 1..Len(soup.anchors[k].text) :
         Lower(soup.anchors[k].text[j]) \in {"faq", "faqs"}
    \/ \E j \in 1..Len(soup.anchors[k].href.segs) :
         Lower(soup.anchors[k].href.segs[j]) \in {"faq", "faqs"}

AfterFaqs == pc \in {"social", "contact", "brand", "links"} \/ (pc = "done" /\ OutputRecord)

\* the containers of a parsed FAQ page that have a question and an answer
RECURSIVE Complete(_)
Complete(cs) ==
  IF cs = <<>> THEN <<>>
  ELSE (IF Head(cs).question # None /\ Head(cs).answer # None THEN <<Head(cs)>> ELSE <<>>)
       \o Complete(Tail(cs))

\* C10: with an FAQ anchor on the homepage, a failed fetch of the FAQ page
\* (network failure, or a status outside 2xx such as 404 or 500) gives no FAQ
\* entries whatever the body holds; otherwise there is one entry per container
\* among the first 5 that has both a question and an answer, so at most 5.
C10_FailedFaqFetchIsEmpty ==
  (AfterFaqs /\ HasFaqAnchor) =>
    IF faqResp.kind = "neterr" \/ faqResp.status \notin 200..299
    THEN insights.faqs = <<>>
    ELSE /\ Len(insights.faqs) <= 5
         /\ faqResp.body.t = "list" =>
              LET kept == Complete(SubSeq(faqResp.body.l, 1, Min(5, Len(faqResp.body.l)))) IN
              /\ Len(insights.faqs) = Len(kept)
              /\ \A k \in 1..Len(kept) :
                   insights.faqs[k].question = Strip(kept[k].question.s)

AfterCatalog == pc \notin {"get_home", "catalog"} /\ insights # None

\* the feeds C3 speaks of: status 200, a 'products' list of objects whose tags
\* are missing, a string, or a list
TagsKind(entry) ==
  IF "tags" \notin DOMAIN entry.d THEN "missing" ELSE entry.d.tags.t

WellFormedFeed ==
  /\ feedResp.kind = "resp" /\ feedResp.status = 200
  /\ feedResp.body.t = "dict"
  /\ "products" \in DOMAIN feedResp.body.d
  /\ feedResp.body.d.products.t = "list"
  /\ \A k \in 1..Len(feedResp.body.d.products.l) :
       /\ feedResp.body.d.products.l[k].t = "dict"
       /\ TagsKind(feedResp.body.d.products.l[k]) \in {"missing", "str", "list"}

\* C3: for such a feed the catalog has one Product per entry, in feed order,
\* whose tags are the comma-split of a non-empty string and [] for a missing or
\* empty field; a list is never split.
C3_OneProductPerEntry ==
  (AfterCatalog /\ WellFormedFeed) =>
    LET entries == feedResp.body.d.products.l IN
    /\ Len(insights.product_catalog) = Len(entries)
    /\ \A k \in 1..Len(entries) :
         /\ insights.product_catalog[k].id = entries[k].d.id
         /\ insights.product_catalog[k].title = entries[k].d.title
         /\ TagsKind(entries[k]) = "missing" => insights.product_catalog[k].tags = <<>>
         /\ (TagsKind(entries[k]) = "str" /\ entries[k].d.tags.s = <<>>) =>
              insights.product_catalog[k].tags = <<>>
         /\ (TagsKind(entries[k]) = "str" /\ entries[k].d.tags.s = <<"r", ",", "b">>) =>
              insights.product_catalog[k].tags = << <<"r">>, <<"b">> >>
         /\ (TagsKind(entries[k]) = "str" /\ entries[k].d.tags.s = <<"r">>) =>
              insights.product_catalog[k].tags = << <<"r">> >>

AfterContact == pc \in {"brand", "links"} \/ (pc = "done" /\ OutputRecord)

DistinctEmails == {soup.emails[k] : k \in 1..Len(soup.emails)}

\* C4: 'emails' holds min(3, d) pairwise-distinct addresses, d being the number
\* of distinct email matches in the text, whatever their order and repetition;
\* the key is absent when there is no match.
C4_UpToThreeUniqueEmails ==
  AfterContact =>
    IF DistinctEmails = {}
    THEN "emails" \notin DOMAIN insights.contact_details
    ELSE /\ "emails" \in DOMAIN insights.contact_details
         /\ LET emails == insights.contact_details.emails IN
            /\ Len(emails) = Min(3, Cardinality(DistinctEmails))
            /\ \A a, b \in 1..Len(emails) : a # b => emails[a] # emails[b]
            /\ \A a \in 1..Len(emails) : emails[a] \in DistinctEmails

MinOf(S) == CHOOSE x \in S : \A y \in S : x <= y

AfterHero == pc \notin {"get_home", "catalog", "hero"} /\ insights # None

\* the positions of the elements a selector matches
Matches(selector) == {j \in 1..Len(soup.elems) : selector \in soup.elems[j].classes}

FirstFive(S) == {j \in S : Cardinality({m \in S : m < j}) < 5}

Titled(S) == {j \in S : soup.elems[j].title # None}

Rank(S, j) == Cardinality({m \in S : m <= j})

MatchingHero == {k \in 1..Len(HeroSelectors) : Matches(HeroSelectors[k]) # {}}

\* C5: the hero products are the titled elements among the first 5 matches of
\* the highest-priority selector that matches anything, in match order, each
\* naming that selector; no lower-priority selector contributes, so there are at
\* most 5 entries and none when those first 5 matches all lack a title.
C5_FirstMatchingSelectorOnly ==
  AfterHero =>
    IF MatchingHero = {} THEN insights.hero_products = <<>>
    ELSE LET selector == HeroSelectors[MinOf(MatchingHero)]
             kept == Titled(FirstFive(Matches(selector))) IN
         /\ Len(insights.hero_products) = Cardinality(kept)
         /\ Len(insights.hero_products) <= 5
         /\ \A j \in kept :
              insights.hero_products[Rank(kept, j)] =
                [title |-> Strip(soup.elems[j].title.s), selector_used |-> selector]

\* five untitled matches of the first selector hide a titled sixth one and a
\* titled match of a later selector
C5_Witness ==
  /\ AfterHero
  /\ insights.hero_products = <<>>
  /\ Cardinality(Matches(".product-card")) >= 5
  /\ Titled(FirstFive(Matches(".product-card"))) = {}
  /\ Titled(Matches(".product") \ Matches(".product-card")) # {}

\* the anchors that match a platform or a link kind
SocialIdx(platform) ==
  {j \in 1..Len(soup.anchors) : SocialMatch(platform, soup.anchors[j].href) # None}

LinkIdx(key) ==
  {j \in 1..Len(soup.anchors) : AnyKeyword(LinkKeywords(key), LowerSeq(soup.anchors[j].text))}

AfterSocial == pc \in {"contact", "brand", "links"} \/ (pc = "done" /\ OutputRecord)

C6_Final ==
  /\ AfterSocial =>
       \A p \in PlatformSet :
         /\ p \in DOMAIN insights.social_handles <=> SocialIdx(p) # {}
         /\ SocialIdx(p) # {} =>
              insights.social_handles[p] =
                SocialMatch(p, soup.anchors[MinOf(SocialIdx(p))].href).s
  /\ (pc = "done" /\ OutputRecord) =>
       \A key \in LinkKinds :
         /\ key \in DOMAIN insights.important_links <=> LinkIdx(key) # {}
         /\ LinkIdx(key) # {} =>
              insights.important_links[key] =
                Urljoin(BaseUrl, soup.anchors[MinOf(LinkIdx(key))].href)

C6_Step ==
  /\ \A p \in DOMAIN social_handles :
       p \in DOMAIN social_handles' /\ social_handles'[p] = social_handles[p]
  /\ \A key \in DOMAIN important_links :
       key \in DOMAIN important_links' /\ important_links'[key] = important_links[key]

\* C6: during the anchor scans a recorded platform or link kind is never
\* overwritten or removed by a later anchor; after a scan each recorded key
\* holds the value of the first anchor in document order that matches it, and
\* a key is absent exactly when no anchor matches it.
C6_FirstMatchWins == []C6_Final /\ [][C6_Step]_vars

\* two anchors match instagram with different handles, two match 'contact'
\* with different targets, and the first of each was kept
C6_Witness ==
  /\ pc = "done" /\ OutputRecord
  /\ Cardinality({SocialMatch("instagram", soup.anchors[j].href) : j \in SocialIdx("instagram")}) = 2
  /\ Cardinality({soup.anchors[j].href : j \in LinkIdx("contact")}) = 2
  /\ insights.social_handles["instagram"] = soup.anchors[MinOf(SocialIdx("instagram"))].href.segs[1]
  /\ insights.important_links["contact"].segs = soup.anchors[MinOf(LinkIdx("contact"))].href.segs

AfterBrand == pc = "links" \/ (pc = "done" /\ OutputRecord)

AboutIdx(k) == {j \in 1..Len(soup.elems) : AboutSelectors[k] \in soup.elems[j].classes}

MatchingAbout == {k \in 1..Len(AboutSelectors) : AboutIdx(k) # {}}

\* C8: when an about selector matches, the brand context is the trimmed text t
\* of the first match of the first matching selector, unchanged when t has at
\* most 300 characters and else its first 300 characters followed by '...';
\* the meta description is used only when no selector matches, cut to 300
\* characters without a marker; the result is null only when neither exists.
C8_BrandContext ==
  AfterBrand =>
    LET bc == insights.brand_context IN
    IF MatchingAbout # {}
    THEN LET t == Strip(soup.elems[MinOf(AboutIdx(MinOf(MatchingAbout)))].text) IN
         /\ bc.t = "str"
         /\ Len(t) <= 300 => bc.s = t
         /\ Len(t) > 300 =>
              /\ Len(bc.s) = 303
              /\ SubSeq(bc.s, 1, 300) = SubSeq(t, 1, 300)
              /\ SubSeq(bc.s, 301, 303) = <<".", ".", ".">>
    ELSE IF soup.meta # None
    THEN LET content == IF "content" \in DOMAIN soup.meta.d THEN soup.meta.d.content ELSE <<>> IN
         /\ bc.t = "str"
         /\ Len(bc.s) <= 300
         /\ bc.s = SubSeq(content, 1, Min(300, Len(content)))
    ELSE bc = None

\* an about section of more than 300 characters, cut and marked, with a meta
\* description present and unused
C8_Witness ==
  /\ AfterBrand
  /\ MatchingAbout # {}
  /\ Len(Strip(soup.elems[MinOf(AboutIdx(MinOf(MatchingAbout)))].text)) = 350
  /\ soup.meta # None
  /\ Len(insights.brand_context.s) = 303

====
